---- MODULE Spec2Model ----
(***************************************************************************)
(* typed-array: the TypedArray enum of src/lib.rs, a tagged handle over    *)
(* the nine js_sys typed arrays, together with the part of the host (the   *)
(* JavaScript typed-array objects and their ArrayBuffers) its methods      *)
(* delegate to.                                                            *)
(*                                                                         *)
(* The host side is the state: a heap of typed-array objects, each a       *)
(* window (byte offset, length) over a byte buffer.  The Rust side is the  *)
(* set of TypedArray handles the caller holds, and the record of the last  *)
(* call with its arguments and its result.                                 *)
(***************************************************************************)
EXTENDS Integers, Sequences, FiniteSets, TLC

VARIABLES
    heap,     \* host typed-array objects, by reference (1..Len(heap))
    bufs,     \* host ArrayBuffers: the bytes of each, by reference
    prov,     \* history: how each object of heap was made
    hs,       \* the TypedArray handles the caller holds
    last,     \* the last call: operation, arguments, outcome, result
    pv,       \* probing machine: the value being classified
    ptodo,    \* probing machine: the kinds not yet probed
    pres      \* probing machine: the result so far

vars == <<heap, bufs, prov, hs, last, pv, ptodo, pres>>

(***************************************************************************)
(* Bounds of the model.                                                    *)
(***************************************************************************)
MaxObjs == 2      \* typed-array objects in the heap
MaxNew == 1       \* of which constructed by the caller (the rest are derived)
MaxLen == 2       \* elements of a constructed array

\* the numbers a plain-array source of set may hold
SrcVals == {-1, 300}

(***************************************************************************)
(* The nine element kinds, in the order dyn_into probes them.              *)
(***************************************************************************)
ProbeOrder ==
    << "Int8Array", "Uint8Array", "Uint8ClampedArray", "Int16Array",
       "Uint16Array", "Int32Array", "Uint32Array", "Float32Array",
       "Float64Array" >>

Kinds == { ProbeOrder[i] : i \in 1..Len(ProbeOrder) }

\* BYTES_PER_ELEMENT of each host class
Width(k) ==
    CASE k \in {"Int8Array", "Uint8Array", "Uint8ClampedArray"} -> 1
      [] k \in {"Int16Array", "Uint16Array"} -> 2
      [] k \in {"Int32Array", "Uint32Array", "Float32Array"} -> 4
      [] k = "Float64Array" -> 8

Min(a, b) == IF a < b THEN a ELSE b
Max(a, b) == IF a > b THEN a ELSE b

(***************************************************************************)
(* Host: element conversion on store.  An element is stored as Width(k)    *)
(* bytes, little-endian: integers modulo 2^(8*Width), the clamped kind     *)
(* saturated to 0..255, floats as IEEE-754 binary32 / binary64.            *)
(***************************************************************************)
Pow2(n) == IF n = 0 THEN 1 ELSE 2 ^ n

RECURSIVE Log2(_)
Log2(a) == IF a < 2 THEN 0 ELSE 1 + Log2(a \div 2)

\* the w-bit binary numeral of n, most significant bit first
Bits(n, w) == [i \in 1..w |-> (n \div Pow2(w - i)) % 2]

Zeros(n) == [i \in 1..n |-> 0]

\* sign, biased exponent, fraction of the integer v as a float
FloatBits(v, ebits, mbits) ==
    IF v = 0 THEN Zeros(1 + ebits + mbits)
    ELSE LET a == IF v < 0 THEN 0 - v ELSE v
             e == Log2(a)
         IN  << (IF v < 0 THEN 1 ELSE 0) >>
               \o Bits(e + Pow2(ebits - 1) - 1, ebits)
               \o Bits(a - Pow2(e), e)
               \o Zeros(mbits - e)

ByteOf(bs) ==
    bs[1] * 128 + bs[2] * 64 + bs[3] * 32 + bs[4] * 16
      + bs[5] * 8 + bs[6] * 4 + bs[7] * 2 + bs[8]

\* a bit string (most significant first) as bytes, least significant first
PackLE(bits) ==
    [j \in 1..(Len(bits) \div 8) |->
        ByteOf(SubSeq(bits, Len(bits) - 8 * j + 1, Len(bits) - 8 * j + 8))]

\* two's complement, little-endian
IntBytes(v, w) == [j \in 1..w |-> (v \div (256 ^ (j - 1))) % 256]

Encode(k, v) ==
    CASE k = "Uint8ClampedArray" -> << Min(Max(v, 0), 255) >>
      [] k = "Float32Array" -> PackLE(FloatBits(v, 8, 23))
      [] k = "Float64Array" -> PackLE(FloatBits(v, 11, 52))
      [] OTHER -> IntBytes(v, Width(k))

\* the stored form of every number the model passes, by kind
Stored == [k \in Kinds |-> [v \in SrcVals |-> Encode(k, v)]]

RECURSIVE EncodeAll(_, _)
EncodeAll(k, items) ==
    IF items = << >> THEN << >>
    ELSE Stored[k][Head(items)] \o EncodeAll(k, Tail(items))

(***************************************************************************)
(* Host: values.  An untyped host value (JsValue) is a typed-array object  *)
(* of the heap, an ArrayBuffer, a plain array of numbers, a number or      *)
(* undefined.                                                              *)
(***************************************************************************)
NoValue == [cls |-> "None", ref |-> 0, items |-> << >>]

ArrayValue(x) == [cls |-> "TypedArray", ref |-> x, items |-> << >>]
BufferValue(b) == [cls |-> "ArrayBuffer", ref |-> b, items |-> << >>]
PlainArray(items) == [cls |-> "Array", ref |-> 0, items |-> items]
NumberValue(n) == [cls |-> "Number", ref |-> 0, items |-> << n >>]
Undefined == [cls |-> "Undefined", ref |-> 0, items |-> << >>]

Refs == 1..Len(heap)

\* v instanceof K
instanceof(v, k) == v.cls = "TypedArray" /\ heap[v.ref].cls = k

\* what the host reads of an element of object x: its bytes in the buffer
Elem(bs, x, j) ==
    SubSeq(bs[heap[x].buf], heap[x].off + j * Width(heap[x].cls) + 1,
           heap[x].off + (j + 1) * Width(heap[x].cls))

(***************************************************************************)
(* Host: the accessors and methods every typed array has.                  *)
(***************************************************************************)
host_buffer(x) == BufferValue(heap[x].buf)
host_length(x) == heap[x].len
host_byte_length(x) == heap[x].blen
host_byte_offset(x) == heap[x].off

\* new K(n): n zero elements over a fresh buffer
host_new(k, n) ==
    [obj |-> [cls |-> k, buf |-> Len(bufs) + 1, off |-> 0, len |-> n,
              blen |-> n * Width(k)],
     bytes |-> Zeros(n * Width(k))]

\* x.subarray(begin, end): a new object over the same buffer
host_subarray(x, begin, end) ==
    LET o == heap[x]
        b == Min(begin, o.len)
        e == Min(end, o.len)
        n == Max(e - b, 0)
    IN  [cls |-> o.cls, buf |-> o.buf, off |-> o.off + b * Width(o.cls),
         len |-> n, blen |-> n * Width(o.cls)]

\* x.slice(begin, end): a new object over a fresh buffer holding a copy
host_slice(x, begin, end) ==
    LET o == heap[x]
        b == Min(begin, o.len)
        e == Min(end, o.len)
        n == Max(e - b, 0)
        w == Width(o.cls)
    IN  [obj |-> [cls |-> o.cls, buf |-> Len(bufs) + 1, off |-> 0, len |-> n,
                  blen |-> n * w],
         bytes |-> SubSeq(bufs[o.buf], o.off + b * w + 1, o.off + (b + n) * w)]

\* the number of elements set reads from src
SrcLen(src) ==
    CASE src.cls = "TypedArray" -> heap[src.ref].len
      [] src.cls = "Array" -> Len(src.items)
      [] OTHER -> 0

\* the bytes set stores for src into an array of kind k
SrcBytes(k, src) ==
    CASE src.cls = "TypedArray" ->
            LET s == heap[src.ref]
            IN  SubSeq(bufs[s.buf], s.off + 1, s.off + s.len * Width(s.cls))
      [] src.cls = "Array" -> EncodeAll(k, src.items)
      [] OTHER -> << >>

\* x.set(src, offset): the outcome and the bytes of x's buffer after it
host_set(x, src, offset) ==
    LET o == heap[x]
        old == bufs[o.buf]
        from == o.off + offset * Width(o.cls)
        data == SrcBytes(o.cls, src)
    IN  IF src.cls = "Undefined"
        THEN [out |-> "TypeError", bytes |-> old]
        ELSE IF SrcLen(src) + offset > o.len
        THEN [out |-> "RangeError", bytes |-> old]
        ELSE [out |-> "ok",
              bytes |-> [j \in 1..Len(old) |->
                            IF j > from /\ j <= from + Len(data)
                            THEN data[j - from] ELSE old[j]]]

\* JsCast::dyn_into::<K>(v): the value as a K, or the value itself back
JsCast_dyn_into(v, k) ==
    IF instanceof(v, k) THEN [ok |-> TRUE, arr |-> v.ref, e |-> NoValue]
    ELSE [ok |-> FALSE, arr |-> 0, e |-> v]

(***************************************************************************)
(* The library: enum TypedArray, a tag and the concrete array it wraps.    *)
(***************************************************************************)
NoHandle == [tag |-> "None", inner |-> 0]

\* impl From<K> for TypedArray
from(k, x) == [tag |-> k, inner |-> x]

\* a bug: the arm that refuses another variant is missing
try_from_any_variant(h, k) == [ok |-> TRUE, arr |-> h.inner, err |-> "None"]

\* impl TryFrom<TypedArray> for K
try_from_typed_array(h, k) ==
    IF h.tag = k THEN [ok |-> TRUE, arr |-> h.inner, err |-> "None"]
    ELSE [ok |-> FALSE, arr |-> 0, err |-> "TryFromTypedArrayError"]

\* match_every!(self, i, ..): the arm taken and the array bound to i
match_every(h) ==
    CASE h.tag = "Int8Array" -> [arm |-> "Int8Array", i |-> h.inner]
      [] h.tag = "Uint8Array" -> [arm |-> "Uint8Array", i |-> h.inner]
      [] h.tag = "Uint8ClampedArray" ->
            [arm |-> "Uint8ClampedArray", i |-> h.inner]
      [] h.tag = "Int16Array" -> [arm |-> "Int16Array", i |-> h.inner]
      [] h.tag = "Uint16Array" -> [arm |-> "Uint16Array", i |-> h.inner]
      [] h.tag = "Int32Array" -> [arm |-> "Int32Array", i |-> h.inner]
      [] h.tag = "Uint32Array" -> [arm |-> "Uint32Array", i |-> h.inner]
      [] h.tag = "Float32Array" -> [arm |-> "Float32Array", i |-> h.inner]
      [] h.tag = "Float64Array" -> [arm |-> "Float64Array", i |-> h.inner]

\* a bug: the array itself handed out in place of its buffer
buffer_of_self(h) == BufferValue(Len(bufs) + match_every(h).i)

buffer(h) == host_buffer(match_every(h).i)

\* a bug: begin dropped, the view starts at element 0
subarray_from_zero(h, begin, end) ==
    [obj |-> host_subarray(match_every(h).i, 0, end),
     h |-> from(match_every(h).arm, Len(heap) + 1)]

\* the new host object and the handle wrapping it (it will be the next
\* object of the heap)
subarray(h, begin, end) ==
    [obj |-> host_subarray(match_every(h).i, begin, end),
     h |-> from(match_every(h).arm, Len(heap) + 1)]

\* a bug: slice forwarded to the host's subarray
slice_as_subarray(h, begin, end) ==
    [obj |-> host_subarray(match_every(h).i, begin, end),
     bytes |-> << >>,
     h |-> from(match_every(h).arm, Len(heap) + 1)]

\* the new host object, the bytes of its fresh buffer, and the handle
slice(h, begin, end) ==
    [obj |-> host_slice(match_every(h).i, begin, end).obj,
     bytes |-> host_slice(match_every(h).i, begin, end).bytes,
     h |-> from(match_every(h).arm, Len(heap) + 1)]

\* a bug: length forwarded to the host's byteLength
length_as_byte_length(h) == host_byte_length(match_every(h).i)

length(h) == host_length(match_every(h).i)

\* a bug: byte_length forwarded to the host's byteOffset
byte_length_as_byte_offset(h) == host_byte_offset(match_every(h).i)

byte_length(h) == host_byte_length(match_every(h).i)

byte_offset(h) == host_byte_offset(match_every(h).i)

\* a bug: the offset dropped, the source stored from element 0
set_at_zero(h, src, offset) == host_set(match_every(h).i, src, 0)

set(h, src, offset) == host_set(match_every(h).i, src, offset)

\* a bug: the Float64Array test is missing
has_type_of_eight(i) ==
    \/ instanceof(i, "Int8Array")
    \/ instanceof(i, "Uint8Array")
    \/ instanceof(i, "Uint8ClampedArray")
    \/ instanceof(i, "Int16Array")
    \/ instanceof(i, "Uint16Array")
    \/ instanceof(i, "Int32Array")
    \/ instanceof(i, "Uint32Array")
    \/ instanceof(i, "Float32Array")

has_type(i) ==
    \/ instanceof(i, "Int8Array")
    \/ instanceof(i, "Uint8Array")
    \/ instanceof(i, "Uint8ClampedArray")
    \/ instanceof(i, "Int16Array")
    \/ instanceof(i, "Uint16Array")
    \/ instanceof(i, "Int32Array")
    \/ instanceof(i, "Uint32Array")
    \/ instanceof(i, "Float32Array")
    \/ instanceof(i, "Float64Array")

\* a bug: the Uint8ClampedArray link casts to Uint8Array
probe_clamped_as_u8(v, k) ==
    LET r == JsCast_dyn_into(v, IF k = "Uint8ClampedArray" THEN "Uint8Array"
                                ELSE k)
    IN  IF r.ok THEN [ok |-> TRUE, h |-> from(k, r.arr), e |-> NoValue]
        ELSE [ok |-> FALSE, h |-> NoHandle, e |-> r.e]

\* JsCast::dyn_into::<K>(v).map(TypedArray::from)
probe(v, k) ==
    LET r == JsCast_dyn_into(v, k)
    IN  IF r.ok THEN [ok |-> TRUE, h |-> from(k, r.arr), e |-> NoValue]
        ELSE [ok |-> FALSE, h |-> NoHandle, e |-> r.e]

\* a bug: the closure ignores the value handed back and probes undefined
or_else_dropping(r, k) == IF r.ok THEN r ELSE probe(Undefined, k)

\* r.or_else(|e| JsCast::dyn_into::<K>(e).map(TypedArray::from))
or_else(r, k) == IF r.ok THEN r ELSE probe(r.e, k)

dyn_into(i) ==
    or_else(or_else(or_else(or_else(or_else(or_else(or_else(or_else(
        probe(i, "Int8Array"),
        "Uint8Array"), "Uint8ClampedArray"), "Int16Array"), "Uint16Array"),
        "Int32Array"), "Uint32Array"), "Float32Array"), "Float64Array")

\* impl TryFrom<JsValue> for TypedArray
try_from_js_value(i) ==
    LET r == dyn_into(i)
    IN  IF r.ok THEN [ok |-> TRUE, h |-> r.h, err |-> "None"]
        ELSE [ok |-> FALSE, h |-> NoHandle, err |-> "TryFromJsValueError"]

(***************************************************************************)
(* The record of a call.                                                   *)
(***************************************************************************)
NoCall ==
    [op |-> "none", h |-> NoHandle, v |-> NoValue, k |-> "None",
     a |-> 0, b |-> 0, out |-> "ok", ok |-> TRUE, rh |-> NoHandle,
     rv |-> NoValue, n |-> 0, err |-> "None"]

NoResult == [ok |-> FALSE, h |-> NoHandle, e |-> NoValue]

NewProv == [via |-> "new", parent |-> 0, begin |-> 0]

\* begin, end and offset arguments: in range and one past it
Args == 0..(MaxLen + 1)

RECURSIVE SeqsUpTo(_, _)
SeqsUpTo(S, n) ==
    IF n = 0 THEN { << >> }
    ELSE SeqsUpTo(S, n - 1)
           \cup { Append(q, x) : q \in { t \in SeqsUpTo(S, n - 1) : Len(t) = n - 1 },
                                 x \in S }

\* the untyped values the caller classifies
JsValues ==
    { ArrayValue(x) : x \in Refs } \cup { BufferValue(b) : b \in 1..Len(bufs) }
      \cup { Undefined, NumberValue(1), PlainArray(<< 1 >>) }

\* the sources the caller passes to set on h: plain arrays of numbers, typed
\* arrays of the receiver's kind, a number, undefined
PlainSources == { PlainArray(q) : q \in SeqsUpTo(SrcVals, MaxLen) }

SetSources(h) ==
    PlainSources
      \cup { ArrayValue(x) : x \in { y \in Refs : heap[y].cls = h.tag } }
      \cup { Undefined, NumberValue(1) }

(***************************************************************************)
(* The state machine.                                                      *)
(***************************************************************************)
Init ==
    /\ heap = << >>
    /\ bufs = << >>
    /\ prov = << >>
    /\ hs = {}
    /\ last = NoCall
    /\ pv = NoValue
    /\ ptodo = {}
    /\ pres = NoResult

NoProbe == UNCHANGED <<pv, ptodo, pres>>

\* the caller makes one call at a time: no call is under way
Idle == last = NoCall

\* the caller has taken the result of the call
Return ==
    /\ last # NoCall
    /\ last' = NoCall
    /\ UNCHANGED <<heap, bufs, prov, hs>>
    /\ NoProbe

Made == Cardinality({ x \in Refs : prov[x].via = "new" })

\* the caller constructs a host array: K::new(&n.into())
HostNew(k, n) ==
    /\ Idle
    /\ Len(heap) < MaxObjs
    /\ Made < MaxNew
    /\ heap' = Append(heap, host_new(k, n).obj)
    /\ bufs' = Append(bufs, host_new(k, n).bytes)
    /\ prov' = Append(prov, NewProv)
    /\ last' = [NoCall EXCEPT !.op = "new", !.k = k, !.a = n]
    /\ UNCHANGED hs
    /\ NoProbe

\* TypedArray::from(x), x of Rust type K
From(x) ==
    /\ Idle
    /\ hs' = hs \cup { from(heap[x].cls, x) }
    /\ last' = [NoCall EXCEPT !.op = "from", !.v = ArrayValue(x),
                              !.k = heap[x].cls,
                              !.rh = from(heap[x].cls, x)]
    /\ UNCHANGED <<heap, bufs, prov>>
    /\ NoProbe

\* K::try_from(h): the handle is consumed
TryFromTypedArray(h, k) ==
    LET r == try_from_typed_array(h, k)
    IN  /\ Idle
        /\ hs' = hs \ { h }
        /\ last' = [NoCall EXCEPT !.op = "try_from", !.h = h, !.k = k,
                                  !.ok = r.ok, !.n = r.arr, !.err = r.err,
                                  !.rv = IF r.ok THEN ArrayValue(r.arr)
                                         ELSE NoValue]
        /\ UNCHANGED <<heap, bufs, prov>>
        /\ NoProbe

\* h.clone(): #[derive(Clone)]
Clone(h) ==
    /\ Idle
    /\ last' = [NoCall EXCEPT !.op = "clone", !.h = h, !.rh = h]
    /\ UNCHANGED <<heap, bufs, prov, hs>>
    /\ NoProbe

Buffer(h) ==
    /\ Idle
    /\ last' = [NoCall EXCEPT !.op = "buffer", !.h = h, !.rv = buffer(h)]
    /\ UNCHANGED <<heap, bufs, prov, hs>>
    /\ NoProbe

Length(h) ==
    /\ Idle
    /\ last' = [NoCall EXCEPT !.op = "length", !.h = h, !.n = length(h)]
    /\ UNCHANGED <<heap, bufs, prov, hs>>
    /\ NoProbe

ByteLength(h) ==
    /\ Idle
    /\ last' = [NoCall EXCEPT !.op = "byte_length", !.h = h,
                              !.n = byte_length(h)]
    /\ UNCHANGED <<heap, bufs, prov, hs>>
    /\ NoProbe

ByteOffset(h) ==
    /\ Idle
    /\ last' = [NoCall EXCEPT !.op = "byte_offset", !.h = h,
                              !.n = byte_offset(h)]
    /\ UNCHANGED <<heap, bufs, prov, hs>>
    /\ NoProbe

Subarray(h, begin, end) ==
    LET r == subarray(h, begin, end)
    IN  /\ Idle
        /\ Len(heap) < MaxObjs
        /\ heap' = Append(heap, r.obj)
        /\ prov' = Append(prov, [via |-> "subarray", parent |-> h.inner,
                                 begin |-> begin])
        /\ hs' = hs \cup { r.h }
        /\ last' = [NoCall EXCEPT !.op = "subarray", !.h = h, !.a = begin,
                                  !.b = end, !.rh = r.h]
        /\ UNCHANGED bufs
        /\ NoProbe

Slice(h, begin, end) ==
    LET r == slice(h, begin, end)
    IN  /\ Idle
        /\ Len(heap) < MaxObjs
        /\ heap' = Append(heap, r.obj)
        /\ bufs' = Append(bufs, r.bytes)
        /\ prov' = Append(prov, [via |-> "slice", parent |-> h.inner,
                                 begin |-> begin])
        /\ hs' = hs \cup { r.h }
        /\ last' = [NoCall EXCEPT !.op = "slice", !.h = h, !.a = begin,
                                  !.b = end, !.rh = r.h]
        /\ NoProbe

\* h.set(src, offset): a host exception leaves the call without a result
Set(h, src, offset) ==
    LET r == set(h, src, offset)
    IN  /\ Idle
        /\ bufs' = [bufs EXCEPT ![heap[h.inner].buf] = r.bytes]
        /\ last' = [NoCall EXCEPT !.op = "set", !.h = h, !.v = src,
                                  !.a = offset, !.out = r.out]
        /\ UNCHANGED <<heap, prov, hs>>
        /\ NoProbe

HasType(v) ==
    /\ Idle
    /\ last' = [NoCall EXCEPT !.op = "has_type", !.v = v, !.ok = has_type(v)]
    /\ UNCHANGED <<heap, bufs, prov, hs>>
    /\ NoProbe

DynInto(v) ==
    LET r == dyn_into(v)
    IN  /\ Idle
        /\ hs' = IF r.ok THEN hs \cup { r.h } ELSE hs
        /\ last' = [NoCall EXCEPT !.op = "dyn_into", !.v = v, !.ok = r.ok,
                                  !.rh = r.h, !.rv = r.e]
        /\ UNCHANGED <<heap, bufs, prov>>
        /\ NoProbe

TryFromJsValue(v) ==
    LET r == try_from_js_value(v)
    IN  /\ Idle
        /\ hs' = IF r.ok THEN hs \cup { r.h } ELSE hs
        /\ last' = [NoCall EXCEPT !.op = "try_from_js", !.v = v, !.ok = r.ok,
                                  !.rh = r.h, !.err = r.err]
        /\ UNCHANGED <<heap, bufs, prov>>
        /\ NoProbe

(***************************************************************************)
(* dyn_into with its nine probes taken in any order: each step is one      *)
(* link of the chain, r.or_else(|e| dyn_into::<K>(e).map(from)), for a     *)
(* kind K not probed yet.                                                  *)
(***************************************************************************)
ProbeInit ==
    /\ \E k \in Kinds :
          /\ heap = << [cls |-> k, buf |-> 1, off |-> 0, len |-> MaxLen,
                        blen |-> MaxLen * Width(k)] >>
          /\ bufs = << Zeros(MaxLen * Width(k)) >>
    /\ prov = << NewProv >>
    /\ hs = {}
    /\ last = NoCall
    /\ pv \in { ArrayValue(1), BufferValue(1), Undefined, NumberValue(1),
                PlainArray(<< 1 >>) }
    /\ ptodo = Kinds
    /\ pres = [ok |-> FALSE, h |-> NoHandle, e |-> pv]

ProbeStep(k) ==
    /\ k \in ptodo
    /\ ~pres.ok
    /\ pres' = or_else(pres, k)
    /\ ptodo' = ptodo \ { k }
    /\ UNCHANGED <<heap, bufs, prov, hs, last, pv>>

NextProbe == \E k \in Kinds : ProbeStep(k)

\* the conversions and the classifiers
NextConv ==
    \/ Return
    \/ \E k \in Kinds, n \in {0, MaxLen} : HostNew(k, n)
    \/ \E x \in Refs : From(x)
    \/ \E h \in hs, k \in Kinds : TryFromTypedArray(h, k)
    \/ \E h \in hs : Clone(h)
    \/ \E v \in JsValues : HasType(v)
    \/ \E v \in JsValues : DynInto(v)
    \/ \E v \in JsValues : TryFromJsValue(v)

\* the operations that make arrays, and the accessors
NextShape ==
    \/ Return
    \/ \E k \in Kinds : HostNew(k, MaxLen)
    \/ \E x \in Refs : From(x)
    \/ \E h \in hs, b \in Args, e \in Args : Subarray(h, b, e)
    \/ \E h \in hs, b \in Args, e \in Args : Slice(h, b, e)
    \/ \E h \in hs : Buffer(h)
    \/ \E h \in hs : Length(h)
    \/ \E h \in hs : ByteLength(h)
    \/ \E h \in hs : ByteOffset(h)

\* every operation
Next ==
    \/ NextConv
    \/ NextShape
    \/ \E h \in hs, o \in Args : \E src \in SetSources(h) : Set(h, src, o)

Spec == Init /\ [][Next]_vars

SpecConv == Init /\ [][NextConv]_vars

SpecShape == Init /\ [][NextShape]_vars

SpecProbe == ProbeInit /\ [][NextProbe]_vars

(***************************************************************************)
(* Properties.                                                             *)
(***************************************************************************)
IsTypedArray(v) == v.cls = "TypedArray"

\* the byte window of object x
Window(x) == <<heap[x].buf, heap[x].off, heap[x].blen>>

\* C1: promoting a concrete array x of kind k and extracting kind k gives
\* back x itself (same buffer, same byte window); extracting any other kind
\* gives Err(TryFromTypedArrayError).
C1_RoundTrip ==
    last.op = "try_from" =>
        \A x \in Refs :
            last.h = from(heap[x].cls, x) =>
                IF last.k = heap[x].cls
                THEN /\ last.ok
                     /\ last.rv = ArrayValue(x)
                     /\ Window(last.n) = Window(x)
                ELSE /\ ~last.ok
                     /\ last.err = "TryFromTypedArrayError"

C1_Witness ==
    /\ last.op = "try_from"
    /\ last.ok
    /\ last.h.tag = "Float64Array"
    /\ heap[last.n].len = MaxLen

\* C2: dyn_into of a value that is none of the nine kinds returns Err of
\* that very value.
C2_ErrReturnsInput ==
    (last.op = "dyn_into" /\ ~IsTypedArray(last.v)) =>
        /\ ~last.ok
        /\ last.rv = last.v

C2_Witness ==
    /\ last.op = "dyn_into"
    /\ ~last.ok
    /\ last.v = NumberValue(1)
    /\ last.rv = NumberValue(1)

\* C3: whatever the order of the nine probes, classifying a typed array of
\* kind k ends with Ok of the handle tagged k that wraps the value itself,
\* which is what dyn_into returns in its own order.
C3_AnyOrder ==
    (pres.ok \/ ptodo = {}) =>
        /\ pres = dyn_into(pv)
        /\ IsTypedArray(pv) =>
              /\ pres.ok
              /\ pres.h = [tag |-> heap[pv.ref].cls, inner |-> pv.ref]

\* a Uint8Array classified before Int8Array was probed
C3_Witness ==
    /\ pres.ok
    /\ pres.h.tag = "Uint8Array"
    /\ "Int8Array" \in ptodo
    /\ "Uint8ClampedArray" \notin ptodo

\* C4: has_type, dyn_into and try_from agree on every value; has_type is
\* true exactly of the typed arrays; a failing try_from gives
\* Err(TryFromJsValueError).
C4_ClassifiersAgree ==
    /\ last.op = "has_type" =>
          /\ last.ok = dyn_into(last.v).ok
          /\ last.ok = try_from_js_value(last.v).ok
          /\ last.ok = IsTypedArray(last.v)
    /\ last.op = "dyn_into" =>
          /\ last.ok = has_type(last.v)
          /\ last.ok = try_from_js_value(last.v).ok
          /\ last.ok => last.rh = try_from_js_value(last.v).h
    /\ last.op = "try_from_js" =>
          /\ last.ok = has_type(last.v)
          /\ last.ok = dyn_into(last.v).ok
          /\ last.ok => last.rh = dyn_into(last.v).h
          /\ ~last.ok => last.err = "TryFromJsValueError"

C4_Witness ==
    /\ last.op = "has_type"
    /\ last.ok
    /\ heap[last.v.ref].cls = "Float64Array"

\* C5: for 0 <= begin <= end <= length, subarray and slice give a handle of
\* end - begin elements with the receiver's tag.
C5_RangeLength ==
    (last.op \in {"subarray", "slice"}
       /\ last.a <= last.b /\ last.b <= length(last.h)) =>
        /\ length(last.rh) = last.b - last.a
        /\ last.rh.tag = last.h.tag

C5_Witness ==
    /\ last.op = "subarray"
    /\ last.a = 1
    /\ last.b = MaxLen
    /\ length(last.rh) = MaxLen - 1
    /\ last.rh.tag = "Int16Array"

\* C6: the buffer of a subarray is the receiver's buffer; the buffer of a
\* slice is not.
C6_BufferIdentity ==
    /\ last.op = "subarray" => buffer(last.rh) = buffer(last.h)
    /\ last.op = "slice" => buffer(last.rh) # buffer(last.h)

C6_Witness ==
    /\ last.op = "slice"
    /\ length(last.rh) > 0
    /\ buffer(last.rh) # buffer(last.h)

\* C7: every handle has byte_length = length * element width of its tag.
C7_ByteLength ==
    \A h \in hs : byte_length(h) = length(h) * Width(h.tag)

\* a Float64Array view of one element, after a set that stored
C7_Witness ==
    /\ last.op = "set"
    /\ last.out = "ok"
    /\ \E h \in hs :
          /\ h.tag = "Float64Array"
          /\ prov[h.inner].via = "subarray"
          /\ length(h) = 1
          /\ byte_length(h) = 8

\* C8: the handle of a concrete array x reports the length, byte length
\* and byte offset x itself reports.
C8_AccessorsForward ==
    \A x \in Refs :
        last.h = from(heap[x].cls, x) =>
            /\ last.op = "length" => last.n = host_length(x)
            /\ last.op = "byte_length" => last.n = host_byte_length(x)
            /\ last.op = "byte_offset" => last.n = host_byte_offset(x)

C8_Witness ==
    /\ last.op = "length"
    /\ last.n = MaxLen
    /\ prov[last.h.inner].via = "new"
    /\ last.h.tag = "Int32Array"

\* C9, as stated, for every source but undefined: every operation returns
\* normally, set included when offset plus the source length exceeds the
\* receiver's length.
C9_AlwaysReturns == last.v.cls # "Undefined" => last.out = "ok"

\* C9, amended: every operation but set returns normally; set raises the
\* host's TypeError for an undefined source and its RangeError when offset
\* plus the source length exceeds the receiver's length, and returns
\* normally otherwise.
C9_OnlySetRaises ==
    /\ last.op # "set" => last.out = "ok"
    /\ last.op = "set" =>
          last.out = IF last.v.cls = "Undefined" THEN "TypeError"
                     ELSE IF SrcLen(last.v) + last.a > length(last.h)
                          THEN "RangeError"
                          ELSE "ok"

C9_Witness ==
    /\ last.op = "set"
    /\ last.out = "RangeError"
    /\ last.v.cls = "Array"
    /\ last.a <= length(last.h)

\* C10: a set through a subarray s of h stores element i of the source at
\* index begin + offset + i of h, and a set through h shows through s; a set
\* through a slice c of h changes no element of h, and a set through h
\* changes no element of c.
StoredElem(data, w, i) == SubSeq(data, i * w + 1, (i + 1) * w)

C10_Step ==
    (last'.op = "set" /\ last'.out = "ok") =>
        LET t == last'.h.inner
            o == last'.a
            n == SrcLen(last'.v)
            w == Width(heap[t].cls)
            data == SrcBytes(heap[t].cls, last'.v)
        IN  \A s \in Refs :
              LET p == prov[s].parent
                  b == prov[s].begin
              IN  /\ (prov[s].via = "subarray" /\ b <= heap[p].len) =>
                        /\ t = s =>
                              \A i \in 0..(n - 1) :
                                  Elem(bufs', p, b + o + i)
                                      = StoredElem(data, w, i)
                        /\ t = p =>
                              \A i \in 0..(n - 1) :
                                  (o + i >= b /\ o + i < b + heap[s].len) =>
                                      Elem(bufs', s, o + i - b)
                                          = StoredElem(data, w, i)
                  /\ prov[s].via = "slice" =>
                        /\ t = s =>
                              \A j \in 0..(heap[p].len - 1) :
                                  Elem(bufs', p, j) = Elem(bufs, p, j)
                        /\ t = p =>
                              \A j \in 0..(heap[s].len - 1) :
                                  Elem(bufs', s, j) = Elem(bufs, s, j)

C10_Sharing == [][C10_Step]_vars

\* a set through a subarray that starts at element 1 has stored 300 in the
\* last element of its receiver
C10_Witness ==
    /\ last.op = "set"
    /\ last.out = "ok"
    /\ last.v = PlainArray(<< 300 >>)
    /\ prov[last.h.inner].via = "subarray"
    /\ prov[last.h.inner].begin = 1
    /\ heap[last.h.inner].cls = "Float32Array"
    /\ Elem(bufs, prov[last.h.inner].parent, 1) = Stored["Float32Array"][300]
    /\ Elem(bufs, prov[last.h.inner].parent, 0) = Zeros(4)

====
